---- MODULE Spec2Model ----
(***************************************************************************)
(* go-sq-tool: the WAV reader/writer of internal/wav (byte level), the     *)
(* PCM16 / float32 sample conversions, and the SQ encoder/decoder front    *)
(* path.                                                                   *)
(*                                                                         *)
(* Representation.  A float64 sample is an exact rational [num, den] with  *)
(* den > 0; den = 0 encodes the IEEE specials: 0/0 NaN, 1/0 +Inf, -1/0     *)
(* -Inf.  sh is a further binary shift, value = num / (den * 2^sh), used   *)
(* only for float32 values too small for a 2^30 denominator.  A stream is a sequence of bytes 0..255.  uint32 header fields    *)
(* are 16-bit limb pairs where the writer computes them, so that the       *)
(* 32-bit wrap-around of the Go arithmetic is kept.                        *)
(***************************************************************************)
EXTENDS Integers, Sequences, FiniteSets, TLC

(***************************************************************************)
(* Bounds of the model                                                     *)
(***************************************************************************)
MaxLen == 2          \* longest channel of an AudioData handed to a writer
MaxChunks == 3       \* most chunks in a stream produced by other software
MaxSignal == 4       \* codec signals have up to MaxSignal + 512/2 samples
TieSpan == 6         \* numerators explored around each PCM16 rounding edge

Nil == [nil |-> TRUE]

(***************************************************************************)
(* Rationals and IEEE specials                                             *)
(***************************************************************************)
Rat(n, d) == [num |-> n, den |-> d, sh |-> 0]
NaN == Rat(0, 0)
PosInf == Rat(1, 0)
NegInf == Rat(-1, 0)
Zero == Rat(0, 1)

\* math.IsNaN
IsNaN(v) == v.den = 0 /\ v.num = 0
\* math.IsInf(v, 0)
IsInf(v) == v.den = 0 /\ v.num # 0
IsFinite(v) == v.den > 0

Abs(x) == IF x < 0 THEN -x ELSE x
Sign(x) == IF x < 0 THEN -1 ELSE IF x > 0 THEN 1 ELSE 0

\* v >= 1.0 and v <= -1.0 as Go's float comparison evaluates them
\* (every comparison with NaN is false)
\* (a value with sh > 0 is below 2^-6 in magnitude)
GeOne(v) == IF v.den = 0 THEN v.num > 0 ELSE v.sh = 0 /\ v.num >= v.den
LeMinusOne(v) == IF v.den = 0 THEN v.num < 0 ELSE v.sh = 0 /\ v.num <= -v.den
GtOne(v) == IF v.den = 0 THEN v.num > 0 ELSE v.sh = 0 /\ v.num > v.den
LtMinusOne(v) == IF v.den = 0 THEN v.num < 0 ELSE v.sh = 0 /\ v.num < -v.den
InUnitRange(v) == v.den > 0 /\ (v.sh > 0 \/ (v.num <= v.den /\ v.num >= -v.den))

(***************************************************************************)
(* Fixed-width integers                                                    *)
(***************************************************************************)
\* int16(x) of an integer-valued float: two's complement wrap
ToInt16(x) == ((x + 32768) % 65536) - 32768
\* uint16(v) of an int16
ToUint16(v) == IF v < 0 THEN v + 65536 ELSE v
\* int16 of a uint16 bit pattern
FromUint16(u) == IF u >= 32768 THEN u - 65536 ELSE u

\* binary.Write / binary.Read, little endian
LE16(x) == <<x % 256, x \div 256>>
\* a uint32 as limbs [hi, lo], each 0..65535
U32(x) == [hi |-> (x \div 65536) % 65536, lo |-> x % 65536]
\* uint32 product with a small factor k, wrapping at 2^32
U32MulSmall(a, k) ==
    LET l == a.lo * k
    IN  [hi |-> (a.hi * k + (l \div 65536)) % 65536, lo |-> l % 65536]
\* uint32 sum with a small addend k, wrapping at 2^32
U32AddSmall(a, k) ==
    LET l == a.lo + k
    IN  [hi |-> (a.hi + (l \div 65536)) % 65536, lo |-> l % 65536]
U32LE(a) == LE16(a.lo) \o LE16(a.hi)
LE32(x) == U32LE(U32(x))

ReadU16(b, p) == b[p + 1] + 256 * b[p + 2]
\* a uint32 read at offset p; the model's streams keep the top byte < 128
ReadU32(b, p) == b[p + 1] + 256 * b[p + 2] + 65536 * b[p + 3] + 16777216 * b[p + 4]

(***************************************************************************)
(* Sample conversions                                                      *)
(***************************************************************************)
\* math.Round(n/d): nearest integer, halves away from zero
RoundHalfAway(n, d) ==
    LET a == Abs(n)
        q == a \div d
        r == a % d
    IN  Sign(n) * (IF 2 * r >= d THEN q + 1 ELSE q)

floatToPCM16_Scale32768(v) ==
    LET w == IF IsNaN(v) \/ IsInf(v) THEN Zero ELSE v
    IN  IF GeOne(w) THEN 32767
        ELSE IF LeMinusOne(w) THEN -32768
        ELSE ToInt16(RoundHalfAway(w.num * 32768, w.den))

floatToPCM16(v) ==
    LET w == IF IsNaN(v) \/ IsInf(v) THEN Zero ELSE v
    IN  IF GeOne(w) THEN 32767
        ELSE IF LeMinusOne(w) THEN -32768
        ELSE ToInt16(RoundHalfAway(w.num * 32767, w.den))

\* the value the float32 writer converts: wav.go 264-272
ClampForFloat32(v) ==
    IF GtOne(v) THEN Rat(1, 1)
    ELSE IF LtMinusOne(v) THEN Rat(-1, 1)
    ELSE IF IsNaN(v) \/ IsInf(v) THEN Zero
    ELSE v

(***************************************************************************)
(* IEEE float32 bit patterns: [sign, exp, mant], exp biased, mant 23 bits  *)
(***************************************************************************)
RECURSIVE Pow2(_)
Pow2(k) == IF k = 0 THEN 1 ELSE 2 * Pow2(k - 1)

\* scale a/d into [1, 2): the binary exponent of a/d, a > 0
RECURSIVE F32Norm(_, _, _)
F32Norm(a, d, e) ==
    IF a < d THEN F32Norm(2 * a, d, e - 1)
    ELSE IF a >= 2 * d THEN F32Norm(a, 2 * d, e + 1)
    ELSE [a |-> a, d |-> d, e |-> e]

\* k further bits of the binary expansion of rem/d, rem < d
RECURSIVE F32Bits(_, _, _, _)
F32Bits(rem, d, k, acc) ==
    IF k = 0 THEN [m |-> acc, rem |-> rem]
    ELSE IF 2 * rem >= d THEN F32Bits(2 * rem - d, d, k - 1, 2 * acc + 1)
    ELSE F32Bits(2 * rem, d, k - 1, 2 * acc)

\* float32(v): round to nearest, ties to even (normal range)
Float32Of(v) ==
    IF IsNaN(v) THEN [sign |-> 0, exp |-> 255, mant |-> 4194304]
    ELSE IF IsInf(v) THEN [sign |-> IF v.num < 0 THEN 1 ELSE 0, exp |-> 255, mant |-> 0]
    ELSE IF v.num = 0 THEN [sign |-> 0, exp |-> 0, mant |-> 0]
    ELSE LET n == F32Norm(Abs(v.num), v.den, 0)
             b == F32Bits(n.a - n.d, n.d, 23, 0)
             up == 2 * b.rem > n.d \/ (2 * b.rem = n.d /\ b.m % 2 = 1)
             m == IF up THEN b.m + 1 ELSE b.m
         IN  [sign |-> IF v.num < 0 THEN 1 ELSE 0,
              exp |-> IF m = 8388608 THEN n.e + 128 ELSE n.e + 127,
              mant |-> IF m = 8388608 THEN 0 ELSE m]

\* math.Float32bits, little endian
Float32LE(f) ==
    << f.mant % 256,
       (f.mant \div 256) % 256,
       (f.mant \div 65536) + 128 * (f.exp % 2),
       (f.exp \div 2) + 128 * f.sign >>

Float32FromLE(b, p) ==
    [sign |-> b[p + 4] \div 128,
     exp |-> 2 * (b[p + 4] % 128) + (b[p + 3] \div 128),
     mant |-> b[p + 1] + 256 * b[p + 2] + 65536 * (b[p + 3] % 128)]

\* strip common factors of two from sig / 2^k
RECURSIVE ReduceDyadic(_, _)
ReduceDyadic(sig, k) ==
    IF k > 0 /\ sig % 2 = 0 /\ sig # 0 THEN ReduceDyadic(sig \div 2, k - 1)
    ELSE [sig |-> sig, k |-> k]

\* float64(f) as a rational; magnitudes above 1 are reported as 2 (every
\* reader of the value only compares it with 1.0)
Float32Value(f) ==
    LET s == IF f.sign = 1 THEN -1 ELSE 1
    IN  IF f.exp = 255 THEN (IF f.mant = 0 THEN Rat(s, 0) ELSE NaN)
        ELSE IF f.exp = 0 /\ f.mant = 0 THEN Zero
        ELSE IF f.exp > 127 \/ (f.exp = 127 /\ f.mant > 0) THEN Rat(2 * s, 1)
        ELSE IF f.exp = 127 THEN Rat(s, 1)
        ELSE LET sig == IF f.exp = 0 THEN f.mant ELSE 8388608 + f.mant
                 k == IF f.exp = 0 THEN 149 ELSE 150 - f.exp
                 r == ReduceDyadic(sig, k)
             IN  IF r.k <= 30 THEN Rat(s * r.sig, Pow2(r.k))
                 ELSE [num |-> s * r.sig, den |-> Pow2(30), sh |-> r.k - 30]

(***************************************************************************)
(* AudioData and the writers                                               *)
(***************************************************************************)
AudioData(rate, samples, n) == [SampleRate |-> rate, Samples |-> samples, NumSamples |-> n]

RIFF == <<82, 73, 70, 70>>
WAVE == <<87, 65, 86, 69>>
FmtID == <<102, 109, 116, 32>>
DataID == <<100, 97, 116, 97>>
ListID == <<76, 73, 83, 84>>

\* wav.go 81-91 and 194-204: "nil" or the error
ValidateWrite_AtLeastChannels(d, channels) ==
    IF Len(d.Samples) < channels THEN "channel count"
    ELSE IF d.NumSamples < 0 THEN "negative NumSamples"
    ELSE IF \E ch \in 1..channels : Len(d.Samples[ch]) < d.NumSamples
         THEN "short channel"
    ELSE "nil"

ValidateWrite_NoNegativeCheck(d, channels) ==
    IF Len(d.Samples) # channels THEN "channel count"
    ELSE IF \E ch \in 1..channels : Len(d.Samples[ch]) < d.NumSamples
         THEN "short channel"
    ELSE "nil"

ValidateWrite(d, channels) ==
    IF Len(d.Samples) # channels THEN "channel count"
    ELSE IF d.NumSamples < 0 THEN "negative NumSamples"
    ELSE IF \E ch \in 1..channels : Len(d.Samples[ch]) < d.NumSamples
         THEN "short channel"
    ELSE "nil"

\* the 44 header bytes both writers emit
Header(d, channels, audioFormat, bitsPerSample) ==
    LET blockAlign == (channels * (bitsPerSample \div 8)) % 65536
        byteRate == U32MulSmall(U32(d.SampleRate), blockAlign)
        dataSize == U32MulSmall(U32(d.NumSamples), blockAlign)
    IN  RIFF \o U32LE(U32AddSmall(dataSize, 36)) \o WAVE
        \o FmtID \o LE32(16) \o LE16(audioFormat) \o LE16(channels)
        \o LE32(d.SampleRate) \o U32LE(byteRate) \o LE16(blockAlign)
        \o LE16(bitsPerSample)
        \o DataID \o U32LE(dataSize)

\* the samples in the order the write loops visit them: frame by frame,
\* channel by channel within a frame
Interleaved_ChannelMajor(d, channels) ==
    [k \in 1..(d.NumSamples * channels) |->
        d.Samples[((k - 1) \div d.NumSamples) + 1][((k - 1) % d.NumSamples) + 1]]

Interleaved(d, channels) ==
    [k \in 1..(d.NumSamples * channels) |->
        d.Samples[((k - 1) % channels) + 1][((k - 1) \div channels) + 1]]

PCM16Payload(d, channels) ==
    LET s == Interleaved(d, channels)
    IN  [j \in 1..(2 * Len(s)) |->
            LE16(ToUint16(floatToPCM16(s[((j - 1) \div 2) + 1])))[((j - 1) % 2) + 1]]

Float32Payload(d, channels) ==
    LET s == Interleaved(d, channels)
    IN  [j \in 1..(4 * Len(s)) |->
            Float32LE(Float32Of(ClampForFloat32(s[((j - 1) \div 4) + 1])))[((j - 1) % 4) + 1]]

\* everything a successful writer hands to its bufio.Writer
WriterOutput(format, d, channels) ==
    IF format = "pcm16"
    THEN Header(d, channels, 1, 16) \o PCM16Payload(d, channels)
    ELSE Header(d, channels, 3, 32) \o Float32Payload(d, channels)

(***************************************************************************)
(* The reader: readWAV, one chunk-loop iteration at a time                 *)
(***************************************************************************)
Bytes4(b, p) == <<b[p + 1], b[p + 2], b[p + 3], b[p + 4]>>

WavFormat(b, p) ==
    [audioFormat |-> ReadU16(b, p),
     numChannels |-> ReadU16(b, p + 2),
     sampleRate |-> ReadU32(b, p + 4),
     byteRate |-> ReadU32(b, p + 8),
     blockAlign |-> ReadU16(b, p + 12),
     bitsPerSample |-> ReadU16(b, p + 14)]

\* readPCM24Sample: three bytes, sign-extended
readPCM24Sample(b, p) ==
    LET v == b[p + 1] + 256 * b[p + 2] + 65536 * b[p + 3]
    IN  IF v >= 8388608 THEN v - 16777216 ELSE v

SanitizeFloat32_ClampOnly(fv) ==
    IF GtOne(fv) THEN Rat(1, 1)
    ELSE IF LtMinusOne(fv) THEN Rat(-1, 1)
    ELSE fv

\* wav.go 431-440: what the reader stores for a float32 sample
SanitizeFloat32(fv) ==
    LET z == IF IsNaN(fv) \/ IsInf(fv) THEN Zero ELSE fv
    IN  IF GtOne(z) THEN Rat(1, 1)
        ELSE IF LtMinusOne(z) THEN Rat(-1, 1)
        ELSE z

DecodeSample_Scale32767(b, p, k, width) ==
    IF width = 2 THEN Rat(FromUint16(ReadU16(b, p + 2 * k)), 32767)
    ELSE IF width = 3 THEN Rat(readPCM24Sample(b, p + 3 * k), 8388608)
    ELSE SanitizeFloat32(Float32Value(Float32FromLE(b, p + 4 * k)))

\* the sample stored for the k-th value (k from 0) of a data chunk at p
DecodeSample(b, p, k, width) ==
    IF width = 2 THEN Rat(FromUint16(ReadU16(b, p + 2 * k)), 32768)
    ELSE IF width = 3 THEN Rat(readPCM24Sample(b, p + 3 * k), 8388608)
    ELSE SanitizeFloat32(Float32Value(Float32FromLE(b, p + 4 * k)))

\* samplesByChannel[ch][i] is the (i*channels + ch)-th value read
Deinterleave(b, p, numFrames, channels, width) ==
    [ch \in 1..channels |->
        [i \in 1..numFrames |-> DecodeSample(b, p, (i - 1) * channels + (ch - 1), width)]]

Failed(r, msg) ==
    [r EXCEPT !.pc = "done", !.data = Nil, !.err = msg]

\* case "fmt ": wav.go 341-372
FmtChunkStep(r, size, body) ==
    LET have == Len(r.src) - body
    IN  IF size < 16 THEN Failed(r, "invalid fmt chunk size")
        ELSE IF have < 2 THEN Failed(r, "read audio format")
        ELSE IF have < 4 THEN Failed(r, "read num channels")
        ELSE IF have < 8 THEN Failed(r, "read sample rate")
        ELSE IF have < 12 THEN Failed(r, "read byte rate")
        ELSE IF have < 14 THEN Failed(r, "read block align")
        ELSE IF have < 16 THEN Failed(r, "read bits per sample")
        ELSE IF have < size THEN Failed(r, "skip fmt extension")
        ELSE [r EXCEPT !.fmt = WavFormat(r.src, body), !.pos = body + size]

\* bytes per sample of the decoding branch taken, 0 when there is none
SampleWidth(f) ==
    IF f.audioFormat = 1 /\ f.bitsPerSample = 16 THEN 2
    ELSE IF f.audioFormat = 1 /\ f.bitsPerSample = 24 THEN 3
    ELSE IF f.audioFormat = 3 /\ f.bitsPerSample = 32 THEN 4
    ELSE 0

\* the same in the package's other copy, which decodes no 24-bit PCM
SampleWidthPart000(f) ==
    IF f.audioFormat = 1 /\ f.bitsPerSample = 16 THEN 2
    ELSE IF f.audioFormat = 3 /\ f.bitsPerSample = 32 THEN 4
    ELSE 0

SampleWidthOf(r) ==
    IF r.impl = "part_000" THEN SampleWidthPart000(r.fmt) ELSE SampleWidth(r.fmt)

UnsupportedError(f) ==
    IF f.audioFormat = 1 THEN "unsupported PCM bit depth"
    ELSE IF f.audioFormat = 3 THEN "unsupported IEEE float bit depth"
    ELSE "unsupported WAV audio format"

SampleReadError(width) ==
    IF width = 2 THEN "read PCM16 sample"
    ELSE IF width = 3 THEN "read PCM24 sample"
    ELSE "read float32 sample"

DataChunkStep_NoChannelCheck(r, size, body) ==
    IF r.fmt = Nil THEN Failed(r, "data chunk before fmt chunk")
    ELSE IF r.fmt.blockAlign = 0 THEN Failed(r, "invalid blockAlign=0")
    ELSE IF size % r.fmt.blockAlign # 0 THEN Failed(r, "data chunk not aligned to block size")
    ELSE LET numFrames == size \div r.fmt.blockAlign
             width == SampleWidthOf(r)
             after == body + width * numFrames * r.exp
         IN  IF width = 0 THEN Failed(r, UnsupportedError(r.fmt))
             ELSE IF after > Len(r.src) THEN Failed(r, SampleReadError(width))
             ELSE IF size % 2 = 1 /\ after + 1 > Len(r.src) THEN Failed(r, "read data pad byte")
             ELSE [r EXCEPT !.pc = "done", !.err = "nil",
                            !.pos = after + (size % 2),
                            !.data = AudioData(r.fmt.sampleRate,
                                               Deinterleave(r.src, body, numFrames, r.exp, width),
                                               numFrames)]

\* case "data": wav.go 374-459
DataChunkStep(r, size, body) ==
    IF r.fmt = Nil THEN Failed(r, "data chunk before fmt chunk")
    ELSE IF r.fmt.numChannels # r.exp THEN Failed(r, "channel mismatch")
    ELSE IF r.fmt.blockAlign = 0 THEN Failed(r, "invalid blockAlign=0")
    ELSE IF size % r.fmt.blockAlign # 0 THEN Failed(r, "data chunk not aligned to block size")
    ELSE LET numFrames == size \div r.fmt.blockAlign
             width == SampleWidthOf(r)
             after == body + width * numFrames * r.exp
         IN  IF width = 0 THEN Failed(r, UnsupportedError(r.fmt))
             ELSE IF after > Len(r.src) THEN Failed(r, SampleReadError(width))
             ELSE IF size % 2 = 1 /\ after + 1 > Len(r.src) THEN Failed(r, "read data pad byte")
             ELSE [r EXCEPT !.pc = "done", !.err = "nil",
                            !.pos = after + (size % 2),
                            !.data = AudioData(r.fmt.sampleRate,
                                               Deinterleave(r.src, body, numFrames, r.exp, width),
                                               numFrames)]

SkipChunkStep_NoPad(r, size, body) ==
    IF Len(r.src) - body < size THEN Failed(r, "skip chunk")
    ELSE [r EXCEPT !.pos = body + size]

\* default: wav.go 461-470
SkipChunkStep(r, size, body) ==
    IF Len(r.src) - body < size THEN Failed(r, "skip chunk")
    ELSE IF size % 2 = 1 /\ Len(r.src) - body < size + 1 THEN Failed(r, "read pad byte")
    ELSE [r EXCEPT !.pos = body + size + (size % 2)]

\* one iteration of the chunk loop: wav.go 327-472, and 474 on EOF
ChunkStep(r) ==
    LET left == Len(r.src) - r.pos
    IN  IF left = 0
        THEN Failed(r, IF r.fault = "none" THEN "no data chunk found" ELSE "read chunk id")
        ELSE IF left < 4 THEN Failed(r, "read chunk id")
        ELSE IF left < 8 THEN Failed(r, "read chunk size")
        ELSE LET id == Bytes4(r.src, r.pos)
                 size == ReadU32(r.src, r.pos + 4)
                 body == r.pos + 8
             IN  IF id = FmtID THEN FmtChunkStep(r, size, body)
                 ELSE IF id = DataID THEN DataChunkStep(r, size, body)
                 ELSE SkipChunkStep(r, size, body)

\* the reader before its loop: wav.go 303-326
HeaderStep(r) ==
    IF Len(r.src) < 4 THEN Failed(r, "read RIFF header")
    ELSE IF Bytes4(r.src, 0) # RIFF THEN Failed(r, "not a RIFF file")
    ELSE IF Len(r.src) < 8 THEN Failed(r, "read RIFF size")
    ELSE IF Len(r.src) < 12 THEN Failed(r, "read WAVE header")
    ELSE IF Bytes4(r.src, 8) # WAVE THEN Failed(r, "not a WAVE file")
    ELSE [r EXCEPT !.pc = "chunk", !.pos = 12]

(***************************************************************************)
(* State                                                                   *)
(***************************************************************************)
VARIABLES
    data,    \* the AudioData the client holds and hands to the writers
    file,    \* the named file: [exists, bytes]
    wbuf,    \* the bytes an io.Writer handed to a ...ToWriter call received
    wres,    \* the last write call: [api, format, channels, fault, err]
    rd,      \* the read call in progress or finished
    layout,  \* how a file made by other software is composed: ChunkMenu indices
    codec,   \* the encoder/decoder scenario
    conv     \* the sample-conversion scenario

vars == <<data, file, wbuf, wres, rd, layout, codec, conv>>

NoFile == [exists |-> FALSE, bytes |-> <<>>]
NoWrite == [api |-> "none", format |-> "none", channels |-> 0, fault |-> "none", err |-> "none"]
RdIdle == [pc |-> "idle", via |-> "none", src |-> <<>>, fault |-> "none", pos |-> 0,
           fmt |-> Nil, exp |-> 0, data |-> Nil, err |-> "none", impl |-> "wav.go"]
NoProcessor == [state |-> "none", blockSize |-> 0, overlap |-> 0]
CodecIdle == [pc |-> "idle", enc |-> NoProcessor, dec |-> NoProcessor,
              quad |-> <<>>, stereo |-> <<>>, din |-> <<>>, decoded |-> <<>>,
              encErr |-> "none", decErr |-> "none"]
ConvIdle == [pc |-> "idle", v |-> Zero, out |-> 0]

(***************************************************************************)
(* Inputs                                                                  *)
(***************************************************************************)
Pool == << Zero, Rat(1, 2), Rat(-1, 2), Rat(1, 1), Rat(-1, 1), Rat(1, 4),
           Rat(1, 10), Rat(-9, 10), Rat(3, 4), NaN, Rat(3, 2), PosInf,
           NegInf, Rat(-2, 1) >>

PoolAt(k) == Pool[(k % Len(Pool)) + 1]

\* channel ch of a frame whose samples walk through Pool from base on, so
\* that every (channel, index) holds another value
ChannelOf(base, ch, len) ==
    [i \in 1..len |-> PoolAt(base + (ch - 1) * MaxLen + (i - 1))]

Bases == {0, 4, 9}
\* SampleRate is a uint32 the writers never check: the second rate is 2^30
Rates == <<44100, 1073741824, 48000>>

\* nch channels of length len, channel short (if any) one sample shorter
DataOf(base, nch, len, short, n) ==
    AudioData(Rates[(base % Len(Rates)) + 1],
              [ch \in 1..nch |->
                  ChannelOf(base, ch, IF ch = short /\ len > 0 THEN len - 1 ELSE len)],
              n)

DataSet ==
    { DataOf(base, nch, len, short, n) :
        base \in Bases, nch \in 2..4, len \in 0..MaxLen, short \in {0, 2},
        n \in -1..MaxLen }

\* a chunk as other software writes it: header, then payload and pad.
\* ChunkMenu: what a foreign file is composed of.  kind "fmt", "data" and
\* "list" are well-formed chunks (ch channels of unit bytes per frame; size
\* payload bytes and a pad byte when size is odd); "fmtodd" declares an odd
\* fmt size, "datacut" ends before its declared size, "listnopad" omits
\* its pad byte, "fmtbad" declares 8-bit PCM, 64-bit float, A-law, a
\* blockAlign of 0, or 16-bit mono PCM with a blockAlign of 8 or 1.  The last
\* data chunk is a float32 NaN and -Inf.
Chunk(id, size, payload) == id \o LE32(size) \o payload

FmtBody(audioFormat, channels, rate, blockAlign, bits) ==
    LE16(audioFormat) \o LE16(channels) \o LE32(rate) \o LE32(rate * blockAlign)
    \o LE16(blockAlign) \o LE16(bits)

ChunkMenu ==
    << [kind |-> "fmt", ch |-> 2, unit |-> 4, bytes |-> Chunk(FmtID, 16, FmtBody(1, 2, 44100, 4, 16))],
       [kind |-> "fmt", ch |-> 1, unit |-> 2, bytes |-> Chunk(FmtID, 16, FmtBody(1, 1, 8000, 2, 16))],
       [kind |-> "fmt", ch |-> 1, unit |-> 4, bytes |-> Chunk(FmtID, 16, FmtBody(3, 1, 48000, 4, 32))],
       [kind |-> "fmt", ch |-> 1, unit |-> 3, bytes |-> Chunk(FmtID, 16, FmtBody(1, 1, 22050, 3, 24))],
       [kind |-> "fmt", ch |-> 2, unit |-> 4,
        bytes |-> Chunk(FmtID, 18, FmtBody(1, 2, 44100, 4, 16) \o <<0, 0>>)],
       [kind |-> "fmtodd", ch |-> 2, unit |-> 4,
        bytes |-> Chunk(FmtID, 17, FmtBody(1, 2, 44100, 4, 16) \o <<0, 0>>)],
       [kind |-> "data", size |-> 0, bytes |-> Chunk(DataID, 0, <<>>)],
       [kind |-> "data", size |-> 4, bytes |-> Chunk(DataID, 4, <<0, 64, 0, 192>>)],
       [kind |-> "data", size |-> 3, bytes |-> Chunk(DataID, 3, <<1, 2, 131, 0>>)],
       [kind |-> "datacut", size |-> 8, bytes |-> Chunk(DataID, 8, <<0, 64>>)],
       [kind |-> "list", size |-> 0, bytes |-> Chunk(ListID, 0, <<>>)],
       [kind |-> "list", size |-> 3, bytes |-> Chunk(ListID, 3, <<7, 7, 7, 0>>)],
       [kind |-> "listnopad", size |-> 3, bytes |-> Chunk(ListID, 3, <<7, 7, 7>>)],
       [kind |-> "fmtbad", ch |-> 1, unit |-> 1, bytes |-> Chunk(FmtID, 16, FmtBody(1, 1, 8000, 1, 8))],
       [kind |-> "fmtbad", ch |-> 1, unit |-> 8, bytes |-> Chunk(FmtID, 16, FmtBody(3, 1, 8000, 8, 64))],
       [kind |-> "fmtbad", ch |-> 1, unit |-> 2, bytes |-> Chunk(FmtID, 16, FmtBody(6, 1, 8000, 2, 16))],
       [kind |-> "fmtbad", ch |-> 1, unit |-> 0, bytes |-> Chunk(FmtID, 16, FmtBody(1, 1, 8000, 0, 16))],
       [kind |-> "fmtbad", ch |-> 1, unit |-> 8, bytes |-> Chunk(FmtID, 16, FmtBody(1, 1, 8000, 8, 16))],
       [kind |-> "fmtbad", ch |-> 1, unit |-> 1, bytes |-> Chunk(FmtID, 16, FmtBody(1, 1, 8000, 1, 16))],
       [kind |-> "data", size |-> 8,
        bytes |-> Chunk(DataID, 8, <<0, 0, 192, 127, 0, 0, 128, 255>>)] >>

RECURSIVE Layouts(_)
Layouts(n) ==
    IF n = 0 THEN {<<>>}
    ELSE LET shorter == Layouts(n - 1)
         IN  shorter \cup { Append(l, k) : l \in { x \in shorter : Len(x) = n - 1 },
                                            k \in 1..Len(ChunkMenu) }

RECURSIVE Concat(_, _)
Concat(l, i) ==
    IF i > Len(l) THEN <<>> ELSE ChunkMenu[l[i]].bytes \o Concat(l, i + 1)

\* a RIFF/WAVE stream with the chunks of layout l
StreamOf(l) ==
    LET body == Concat(l, 1)
    IN  RIFF \o LE32(4 + Len(body)) \o WAVE \o body

BrokenStreams ==
    { <<>>, RIFF, RIFF \o LE32(4), RIFF \o LE32(4) \o <<87, 65, 86, 88>>,
      <<82, 73, 70, 88>> \o LE32(4) \o WAVE }

(***************************************************************************)
(* Init                                                                    *)
(***************************************************************************)
Init ==
    /\ \/ /\ data \in DataSet
          /\ file = NoFile
          /\ layout = <<>>
       \/ /\ data = Nil
          /\ layout \in Layouts(MaxChunks)
          /\ file = [exists |-> TRUE, bytes |-> StreamOf(layout)]
       \/ /\ data = Nil
          /\ layout = <<>>
          /\ file \in { [exists |-> TRUE, bytes |-> s] : s \in BrokenStreams }
    /\ wbuf = <<>>
    /\ wres = NoWrite
    /\ rd = RdIdle
    /\ codec = CodecIdle
    /\ conv = ConvIdle

(***************************************************************************)
(* Writers                                                                 *)
(***************************************************************************)
Formats == {"pcm16", "float32"}
WriterChannels == {2, 4}

\* what reaches the destination when the underlying Write fails: a prefix
Prefixes(out) == { SubSeq(out, 1, k) : k \in {12} \cap 0..(Len(out) - 1) }

\* WriteWAV, WriteStereoWAV, WriteFloat32WAV, WriteStereoFloat32WAV:
\* os.Create, the ...ToWriter body, the deferred Close
WriteFile(format, channels, fault) ==
    /\ data # Nil
    /\ rd.pc # "chunk"
    /\ wbuf = <<>>
    /\ fault = "create" => ~file.exists
    /\ rd' = RdIdle
    /\ UNCHANGED <<data, wbuf, layout, codec, conv>>
    /\ LET call == [api |-> "file", format |-> format, channels |-> channels, fault |-> fault]
           check == ValidateWrite(data, channels)
           out == WriterOutput(format, data, channels)
       IN  IF fault = "create"
           THEN /\ wres' = call @@ [err |-> "failed to create WAV file"]
                /\ file' = file
           ELSE IF check # "nil"
           THEN /\ wres' = call @@ [err |-> check]
                /\ file' = [exists |-> TRUE, bytes |-> <<>>]
           ELSE IF fault = "write"
           THEN /\ wres' = call @@ [err |-> "failed to flush WAV data"]
                /\ \E p \in Prefixes(out) : file' = [exists |-> TRUE, bytes |-> p]
           ELSE IF fault = "close"
           THEN /\ wres' = call @@ [err |-> "nil"]
                /\ \E p \in Prefixes(out) \cup {out} : file' = [exists |-> TRUE, bytes |-> p]
           ELSE /\ wres' = call @@ [err |-> "nil"]
                /\ file' = [exists |-> TRUE, bytes |-> out]

\* WriteWAVToWriter, WriteStereoWAVToWriter, WriteFloat32WAVToWriter,
\* WriteStereoFloat32WAVToWriter on a writer that has received nothing yet
WriteToWriter(format, channels, fault) ==
    /\ data # Nil
    /\ rd.pc # "chunk"
    /\ ~file.exists
    /\ wbuf = <<>>
    /\ rd' = RdIdle
    /\ UNCHANGED <<data, file, layout, codec, conv>>
    /\ LET call == [api |-> "writer", format |-> format, channels |-> channels, fault |-> fault]
           check == ValidateWrite(data, channels)
           out == WriterOutput(format, data, channels)
       IN  IF check # "nil"
           THEN /\ wres' = call @@ [err |-> check]
                /\ wbuf' = wbuf
           ELSE IF fault = "write"
           THEN /\ wres' = call @@ [err |-> "failed to flush WAV data"]
                /\ \E p \in Prefixes(out) : wbuf' = p
           ELSE /\ wres' = call @@ [err |-> "nil"]
                /\ wbuf' = out

(***************************************************************************)
(* Readers                                                                 *)
(***************************************************************************)
ReaderChannels == {1, 2, 4}

\* what the underlying reader delivers: all the bytes and then io.EOF, or
\* the first k bytes and then an I/O error
Sources(bytes) ==
    { [src |-> bytes, fault |-> "none"] }
    \cup { [src |-> SubSeq(bytes, 1, k), fault |-> "read"] : k \in {20} \cap 0..(Len(bytes) - 1) }

\* ReadWAVChannels / ReadWAV: os.Open, then readWAV up to its chunk loop
ReadFileStart(channels, openFails) ==
    /\ rd.pc # "chunk"
    /\ UNCHANGED <<data, file, wbuf, wres, layout, codec, conv>>
    /\ IF openFails \/ ~file.exists
       THEN rd' = [RdIdle EXCEPT !.pc = "done", !.via = "file", !.exp = channels,
                                 !.fault = "open", !.err = "failed to open WAV file"]
       ELSE \E s \in Sources(file.bytes) :
               rd' = HeaderStep([RdIdle EXCEPT !.via = "file", !.exp = channels,
                                               !.src = s.src, !.fault = s.fault])

\* ReadWAVBytes / ReadWAVFromReader: readWAV up to its chunk loop
ReadBytesStart(channels) ==
    /\ rd.pc # "chunk"
    /\ wres.api = "writer"
    /\ UNCHANGED <<data, file, wbuf, wres, layout, codec, conv>>
    /\ \E s \in Sources(wbuf) :
          rd' = HeaderStep([RdIdle EXCEPT !.via = "bytes", !.exp = channels,
                                          !.src = s.src, !.fault = s.fault])

\* one iteration of readWAV's chunk loop
ReadChunk ==
    /\ rd.pc = "chunk"
    /\ rd' = ChunkStep(rd)
    /\ UNCHANGED <<data, file, wbuf, wres, layout, codec, conv>>

WavNext ==
    \/ \E f \in Formats, c \in WriterChannels, x \in {"none", "create", "write", "close"} :
          WriteFile(f, c, x)
    \/ \E f \in Formats, c \in WriterChannels, x \in {"none", "write"} :
          WriteToWriter(f, c, x)
    \/ \E c \in ReaderChannels, o \in BOOLEAN : ReadFileStart(c, o)
    \/ \E c \in ReaderChannels : ReadBytesStart(c)
    \/ ReadChunk

Spec == Init /\ [][WavNext]_vars

(***************************************************************************)
(* Vocabulary of the properties                                            *)
(***************************************************************************)
\* the shape a writer for `channels` channels accepts
ShapeOK(d, channels) ==
    /\ Len(d.Samples) = channels
    /\ d.NumSamples >= 0
    /\ \A ch \in 1..Len(d.Samples) : Len(d.Samples[ch]) >= d.NumSamples

AllInUnitRange(d) ==
    \A ch \in 1..Len(d.Samples) : \A i \in 1..Len(d.Samples[ch]) :
        InUnitRange(d.Samples[ch][i])

\* a write call has returned
Wrote == wres.api # "none"

\* a read call has returned, and it read what the last write call left
ReadBack ==
    /\ rd.pc = "done"
    /\ \/ wres.api = "file" /\ rd.via = "file"
       \/ wres.api = "writer" /\ rd.via = "bytes"

ReadOK == rd.pc = "done" /\ rd.err = "nil"

\* |got - want| <= 2/32767, both finite with sh = 0
WithinPCM16Tolerance(got, want) ==
    /\ got.den > 0
    /\ want.den > 0
    /\ Abs(got.num * want.den - want.num * got.den)
          <= (2 * got.den * want.den) \div 32767

(***************************************************************************)
(* C2  PCM16 WAV round-trip.  A well-formed stereo AudioData with samples  *)
(* in [-1, +1] is written as PCM16 without error, and reading the result   *)
(* with channel count 2 succeeds and returns the same sample rate, the     *)
(* same NumSamples, exactly 2 channels of NumSamples samples, and at every *)
(* (channel, index) a sample within 2/32767 of the one written there.      *)
(***************************************************************************)
C2_PCM16RoundTrip ==
    ( /\ Wrote
      /\ wres.format = "pcm16"
      /\ wres.channels = 2
      /\ wres.fault = "none"
      /\ ShapeOK(data, 2)
      /\ AllInUnitRange(data) )
    => /\ wres.err = "nil"
       /\ (ReadBack /\ rd.exp = 2 /\ rd.fault = "none")
          => /\ rd.err = "nil"
             /\ rd.data.SampleRate = data.SampleRate
             /\ rd.data.NumSamples = data.NumSamples
             /\ Len(rd.data.Samples) = 2
             /\ \A ch \in 1..2 :
                   /\ Len(rd.data.Samples[ch]) = data.NumSamples
                   /\ \A i \in 1..data.NumSamples :
                         WithinPCM16Tolerance(rd.data.Samples[ch][i], data.Samples[ch][i])

C2_Witness ==
    /\ wres.format = "pcm16" /\ wres.channels = 2 /\ wres.fault = "none"
    /\ wres.err = "nil"
    /\ AllInUnitRange(data)
    /\ data.NumSamples = 2
    /\ data.Samples[1][2] # data.Samples[2][1]
    /\ ReadBack /\ rd.exp = 2 /\ rd.err = "nil"
    /\ rd.data.Samples[2][2] = Rat(32767, 32768)

(***************************************************************************)
(* C3  Channel mismatch on read.  Whenever the fmt chunk in effect         *)
(* declares a channel count other than the requested one, the read         *)
(* returns an error and no AudioData; in particular a file written with 2  *)
(* (or 4) channels cannot be read with another requested count.            *)
(***************************************************************************)
C3_ChannelMismatch ==
    /\ (rd.pc = "done" /\ rd.fmt # Nil /\ rd.fmt.numChannels # rd.exp)
          => (rd.err # "nil" /\ rd.data = Nil)
    /\ (ReadBack /\ wres.err = "nil" /\ wres.channels # rd.exp)
          => (rd.err # "nil" /\ rd.data = Nil)

C3_Witness ==
    /\ ReadBack
    /\ wres.err = "nil" /\ wres.fault = "none" /\ wres.channels = 2
    /\ data.NumSamples > 0
    /\ rd.exp = 4
    /\ rd.err = "channel mismatch"
    /\ rd.data = Nil

(***************************************************************************)
(* C4  Float32 write conversion, as claimed: every sample v the float32    *)
(* writer emits is v clamped to [-1, +1] when v is finite and 0 when v is  *)
(* NaN, +Inf or -Inf.                                                      *)
(***************************************************************************)
ClaimedFloat32(v) ==
    IF IsNaN(v) \/ IsInf(v) THEN Zero
    ELSE IF v.num > v.den THEN Rat(1, 1)
    ELSE IF v.num < -v.den THEN Rat(-1, 1)
    ELSE v

Written == IF wres.api = "file" THEN file.bytes ELSE wbuf

C4_Float32WriteConversion ==
    (Wrote /\ wres.format = "float32" /\ wres.err = "nil" /\ wres.fault = "none")
    => \A i \in 1..data.NumSamples : \A ch \in 1..wres.channels :
          Float32FromLE(Written, 44 + 4 * ((i - 1) * wres.channels + (ch - 1)))
             = Float32Of(ClaimedFloat32(data.Samples[ch][i]))

(***************************************************************************)
(* Foreign files                                                           *)
(***************************************************************************)
KindAt(i) == ChunkMenu[layout[i]].kind
WellFormedLayout ==
    /\ layout # <<>>
    /\ \A i \in 1..Len(layout) : KindAt(i) \in {"fmt", "data", "list"}

\* offset of the i-th chunk header of the layout (i = Len + 1: the end)
RECURSIVE ChunkStart(_)
ChunkStart(i) ==
    IF i = 1 THEN 12 ELSE ChunkStart(i - 1) + Len(ChunkMenu[layout[i - 1]].bytes)
ChunkStarts == { ChunkStart(i) : i \in 1..(Len(layout) + 1) }

\* the layout holds exactly one fmt chunk, at i, and exactly one data chunk,
\* at j, whose size is a whole number of the fmt chunk's frames
ValidPair(i, j) ==
    /\ KindAt(i) = "fmt" /\ KindAt(j) = "data"
    /\ \A k \in 1..Len(layout) : (KindAt(k) = "fmt" => k = i) /\ (KindAt(k) = "data" => k = j)
    /\ ChunkMenu[layout[j]].size % ChunkMenu[layout[i]].unit = 0

C7_OnlyTwoOrFour ==
    /\ (Wrote /\ wres.err = "nil") => wres.channels \in {2, 4}
    /\ (rd.pc = "done" /\ rd.exp \notin {2, 4}) => rd.err # "nil"

(***************************************************************************)
(* C7 (amended)  The write operations write 2 or 4 channels and reject an  *)
(* AudioData with another number of channels.  The read operations accept  *)
(* any requested channel count and succeed only when it is the count the   *)
(* fmt chunk declares, returning that many channels: a request for 1       *)
(* channel on a mono file succeeds.                                        *)
(***************************************************************************)
C7_ChannelCounts ==
    /\ (Wrote /\ wres.err = "nil")
          => (wres.channels \in {2, 4} /\ Len(data.Samples) = wres.channels)
    /\ ReadOK
          => /\ rd.fmt # Nil
             /\ rd.fmt.numChannels = rd.exp
             /\ Len(rd.data.Samples) = rd.exp

C7_Witness ==
    /\ ReadOK
    /\ rd.exp = 1
    /\ rd.fmt.numChannels = 1
    /\ rd.data.NumSamples = 2
    /\ Len(rd.data.Samples) = 1

(***************************************************************************)
(* C8  Write-side shape validation, as claimed: every write operation      *)
(* returns an error when the channel count differs, when NumSamples is     *)
(* negative, when NumSamples exceeds the length of a channel, or when the  *)
(* channels do not all have the same length.                               *)
(***************************************************************************)
Ragged(d) ==
    \E a, b \in 1..Len(d.Samples) : Len(d.Samples[a]) # Len(d.Samples[b])

C8_RejectsUnequalLengths ==
    (Wrote /\ (~ShapeOK(data, wres.channels) \/ Ragged(data))) => wres.err # "nil"

(***************************************************************************)
(* C8 (amended)  Every write operation returns an error when the channel   *)
(* count differs from the writer's, when NumSamples is negative, or when   *)
(* NumSamples exceeds the length of a channel; an AudioData that passes    *)
(* these three checks is written, also when its channels have different    *)
(* lengths.                                                                *)
(***************************************************************************)
C8_WriteValidation ==
    Wrote
    => /\ ~ShapeOK(data, wres.channels) => wres.err \notin {"nil", "none"}
       /\ (ShapeOK(data, wres.channels) /\ wres.fault = "none") => wres.err = "nil"

C8_Witness ==
    /\ Wrote
    /\ wres.fault = "none"
    /\ ShapeOK(data, wres.channels)
    /\ Ragged(data)
    /\ data.NumSamples = 1
    /\ wres.err = "nil"
    /\ Len(Written) = 44 + 2 * wres.channels

(***************************************************************************)
(* C9  Error propagation, as claimed: whenever a step of a WAV read or     *)
(* write fails (open/create, a write, the flush, the close), the operation *)
(* returns a non-nil error, and a read never returns nil data with a nil   *)
(* error.                                                                  *)
(***************************************************************************)
C9_ErrorPropagation ==
    /\ (Wrote /\ wres.fault # "none") => wres.err # "nil"
    /\ (rd.pc = "done" /\ rd.fault # "none") => rd.err # "nil"
    /\ rd.pc = "done" => ~(rd.data = Nil /\ rd.err = "nil")

(***************************************************************************)
(* Sample conversion on its own: one value in, one PCM16 code out.         *)
(* Inputs are float64 values given exactly: dyadic fractions (and tenths)  *)
(* around 0, around +-1, and around +-1/2 where v * 32767 is a tie, plus   *)
(* NaN and the infinities.                                                 *)
(***************************************************************************)
Dens == {1, 2, 4, 10, 32768, 65536}
Near(c) == (c - TieSpan)..(c + TieSpan)
Numerators(d) ==
    Near(0) \cup Near(d) \cup Near(-d) \cup Near(d \div 2) \cup Near(-(d \div 2))
InitPCM ==
    /\ data = Nil
    /\ file = NoFile
    /\ wbuf = <<>>
    /\ wres = NoWrite
    /\ rd = RdIdle
    /\ layout = <<>>
    /\ codec = CodecIdle
    /\ \E d \in Dens : \E n \in Numerators(d) :
          conv \in { [pc |-> "ready", v |-> x, out |-> 0] : x \in {Rat(n, d), NaN, PosInf, NegInf} }

ConvertPCM16 ==
    /\ conv.pc = "ready"
    /\ conv' = [conv EXCEPT !.pc = "done", !.out = floatToPCM16(conv.v)]
    /\ UNCHANGED <<data, file, wbuf, wres, rd, layout, codec>>

PCMNext == ConvertPCM16

SpecPCM == InitPCM /\ [][PCMNext]_vars

(***************************************************************************)
(* C5  PCM16 write conversion: floatToPCM16 returns 0 when v is NaN or     *)
(* +-Inf, 32767 when v >= 1.0, -32768 when v <= -1.0, and otherwise        *)
(* round(v * 32767) with halves away from zero, a value in                 *)
(* [-32767, 32767]; the result is always the int16 the rule names, never   *)
(* a wrapped one.                                                          *)
(***************************************************************************)
C5_FloatToPCM16 ==
    conv.pc = "done"
    => LET n == conv.v.num
           d == conv.v.den
           r == conv.out
       IN  /\ r \in -32768..32767
           /\ d = 0 => r = 0
           /\ (d > 0 /\ n >= d) => r = 32767
           /\ (d > 0 /\ n <= -d) => r = -32768
           /\ (d > 0 /\ n < d /\ n > -d)
                 => /\ r \in -32767..32767
                    /\ 2 * Abs(r * d - 32767 * n) <= d
                    /\ 2 * Abs(r * d - 32767 * n) = d => Abs(r * d) > Abs(32767 * n)

\* 0.5 * 32767 = 16383.5 is a tie and goes away from zero
C5_Witness ==
    /\ conv.pc = "done"
    /\ conv.v = Rat(-1, 2)
    /\ conv.out = -16384

(***************************************************************************)
(* SQ encoder and decoder.  Construction takes (blockSize, overlap); a     *)
(* processor maps whole channels.  A sample is Known(x), x an integer, or  *)
(* Unknown where the value depends on the Hilbert transform of a channel   *)
(* that is not silent or on the irrational coefficient c = sqrt(2)/2.      *)
(***************************************************************************)
RefBlockSize == 1024
RefOverlap == 512
RefLatency == 768
MinBlockSize == 64

Known(x) == <<x>>
Unknown == <<>>
Silence == Known(0)

RECURSIVE IsPowerOfTwo(_)
IsPowerOfTwo(n) ==
    IF n < 1 THEN FALSE
    ELSE IF n = 1 THEN TRUE
    ELSE n % 2 = 0 /\ IsPowerOfTwo(n \div 2)

ValidConfig_AnyBlockSize(blockSize, overlap) ==
    /\ blockSize >= MinBlockSize
    /\ overlap > 0
    /\ overlap < blockSize

ValidConfig(blockSize, overlap) ==
    /\ IsPowerOfTwo(blockSize)
    /\ blockSize >= MinBlockSize
    /\ overlap > 0
    /\ overlap < blockSize

\* the outcome of a constructor: a usable processor, or a configuration error
NewProcessor(blockSize, overlap) ==
    [state |-> IF ValidConfig(blockSize, overlap) THEN "ready" ELSE "error",
     blockSize |-> blockSize, overlap |-> overlap]

InputOffset_HalfOverlap(overlap) == overlap \div 2

InputOffset_Rounded(overlap) == (overlap + 2) \div 4

\* both processors map samples with inputOffset = overlap/4
InputOffset(overlap) == overlap \div 4

Original_NoFlush(x, p) ==
    [i \in 1..(Len(x) - InputOffset(p.overlap)) |-> x[i + InputOffset(p.overlap)]]

\* the original stream of a processor: output i is input i + inputOffset,
\* the tail is the flush of the (empty) buffers
Original(x, p) ==
    [i \in 1..Len(x) |->
        IF i + InputOffset(p.overlap) <= Len(x) THEN x[i + InputOffset(p.overlap)] ELSE Silence]

Silent(x) == \A i \in 1..Len(x) : x[i] = Silence

\* the 90 degree shifted stream: silence stays silence (the transform is linear)
Hilbert(x, p) ==
    IF Silent(x) THEN [i \in 1..Len(x) |-> Silence] ELSE [i \in 1..Len(x) |-> Unknown]

\* a + c*b - c*h (encoder) and the like: exact only when b and h are silent
Mix(a, b, h) ==
    [i \in 1..Len(a) |-> IF b[i] = Silence /\ h[i] = Silence THEN a[i] ELSE Unknown]

\* c*b - c*h: exact only when both are silent
MixRear(b, h) ==
    [i \in 1..Len(b) |-> IF b[i] = Silence /\ h[i] = Silence THEN Silence ELSE Unknown]

\* the input shape check of Process: channel count against the processor arity
ArityError(x, arity) == IF Len(x) # arity THEN "channel count" ELSE "nil"

\* LT = LF' + c RB' - c H{LB},  RT = RF' + c LB' + c H{RB}
EncoderProcess(p, q) ==
    << Mix(Original(q[1], p), Original(q[4], p), Hilbert(q[3], p)),
       Mix(Original(q[2], p), Original(q[3], p), Hilbert(q[4], p)) >>

\* LF = LT', RF = RT', LB = c H{LT} - c RT', RB = c LT' - c H{RT}
DecoderProcess(p, st) ==
    << Original(st[1], p),
       Original(st[2], p),
       MixRear(Original(st[2], p), Hilbert(st[1], p)),
       MixRear(Original(st[1], p), Hilbert(st[2], p)) >>

BlockSizes == {0, 32, 63, 64, 100, 1000, 1024}
Overlaps == {-1, 0, 6, 16, 512, 1024}

\* front signals: small integer waveforms of a given length
Signal(a, b, n) == [i \in 1..n |-> Known(((a * (i - 1) + b) % 7) - 3)]
Flat(n) == [i \in 1..n |-> Silence]
Waves == { <<1, 0>>, <<2, 3>>, <<3, 5>> }
SignalLengths ==
    { RefOverlap \div 2 - 1, RefOverlap \div 2 + 1, RefOverlap \div 2 + MaxSignal }
QuadOf(l, r, n, rear) ==
    << Signal(l[1], l[2], n), Signal(r[1], r[2], n),
       IF rear THEN Signal(1, 1, n) ELSE Flat(n), Flat(n) >>
Quads ==
    { QuadOf(l, r, n, rear) :
         l \in Waves, r \in Waves, n \in SignalLengths, rear \in BOOLEAN }

InitCodec ==
    /\ data = Nil
    /\ file = NoFile
    /\ wbuf = <<>>
    /\ wres = NoWrite
    /\ rd = RdIdle
    /\ layout = <<>>
    /\ conv = ConvIdle
    /\ codec = CodecIdle

NewSQEncoderWithParams(blockSize, overlap) ==
    /\ codec.enc.state = "none"
    /\ codec' = [codec EXCEPT !.enc = NewProcessor(blockSize, overlap)]
    /\ UNCHANGED <<data, file, wbuf, wres, rd, layout, conv>>

NewSQDecoderWithParams(blockSize, overlap) ==
    /\ codec.dec.state = "none"
    /\ codec' = [codec EXCEPT !.dec = NewProcessor(blockSize, overlap)]
    /\ UNCHANGED <<data, file, wbuf, wres, rd, layout, conv>>

\* inputs of the wrong arity: 0, 2, 3 and 5 channels
ShortQuad == QuadOf(<<1, 0>>, <<2, 3>>, RefOverlap \div 2 - 1, FALSE)
\* one input longer than the reported latency
LongQuad == QuadOf(<<1, 0>>, <<2, 3>>, RefLatency + MaxSignal, FALSE)
EncoderInputs ==
    Quads \cup {LongQuad} \cup { <<>>, <<ShortQuad[1], ShortQuad[2]>>,
                 <<ShortQuad[1], ShortQuad[2], ShortQuad[3]>> }
          \cup { ShortQuad \o <<ShortQuad[1]>> }

\* what a decoder may be handed after an encode: the encoder's output, or by
\* mistake one channel of it, or the 4-channel input
DecoderInputs ==
    IF codec.pc = "encoded"
    THEN { codec.stereo, <<codec.stereo[1]>>, codec.quad }
    ELSE {}

Encode(q) ==
    /\ codec.enc.state = "ready"
    /\ codec.pc = "idle"
    /\ codec' = IF ArityError(q, 4) # "nil"
                 THEN [codec EXCEPT !.pc = "encfailed", !.quad = q,
                                    !.encErr = ArityError(q, 4)]
                 ELSE [codec EXCEPT !.pc = "encoded", !.quad = q, !.encErr = "nil",
                                    !.stereo = EncoderProcess(codec.enc, q)]
    /\ UNCHANGED <<data, file, wbuf, wres, rd, layout, conv>>

Decode(st) ==
    /\ codec.dec.state = "ready"
    /\ codec.pc = "encoded"
    /\ codec' = IF ArityError(st, 2) # "nil"
                 THEN [codec EXCEPT !.pc = "decfailed", !.din = st,
                                    !.decErr = ArityError(st, 2)]
                 ELSE [codec EXCEPT !.pc = "decoded", !.din = st, !.decErr = "nil",
                                    !.decoded = DecoderProcess(codec.dec, st)]
    /\ UNCHANGED <<data, file, wbuf, wres, rd, layout, conv>>

CodecNext ==
    \/ \E b \in BlockSizes : \E o \in Overlaps : NewSQEncoderWithParams(b, o)
    \/ \E b \in BlockSizes : \E o \in Overlaps : NewSQDecoderWithParams(b, o)
    \/ \E q \in EncoderInputs : Encode(q)
    \/ \E st \in DecoderInputs : Decode(st)

SpecCodec == InitCodec /\ [][CodecNext]_vars

IsRef(p) == p.state = "ready" /\ p.blockSize = RefBlockSize /\ p.overlap = RefOverlap

(***************************************************************************)
(* C1  Front round-trip (reference configuration): with block size 1024    *)
(* and overlap 512, for front signals lf, rf of length n and all-zero rear *)
(* channels, decoding the encoder's output gives decoded[0][i] = lf[i+256] *)
(* and decoded[1][i] = rf[i+256] for every i in [0, n-256).                *)
(***************************************************************************)
C1_FrontRoundTrip ==
    (/\ codec.pc = "decoded"
     /\ IsRef(codec.enc) /\ IsRef(codec.dec)
     /\ Silent(codec.quad[3]) /\ Silent(codec.quad[4]))
    => /\ Len(codec.decoded) = 4
       /\ \A i \in 0..(Len(codec.quad[1]) - 256 - 1) :
             /\ codec.decoded[1][i + 1] = codec.quad[1][i + 256 + 1]
             /\ codec.decoded[2][i + 1] = codec.quad[2][i + 256 + 1]

C1_Witness ==
    /\ codec.pc = "decoded"
    /\ IsRef(codec.enc) /\ IsRef(codec.dec)
    /\ Silent(codec.quad[3]) /\ Silent(codec.quad[4])
    /\ Len(codec.quad[1]) = 256 + MaxSignal
    /\ codec.decoded[1][1] # codec.decoded[1][2]
    /\ codec.decoded[1][1] # codec.decoded[2][1]
    /\ codec.decoded[1][1] = codec.quad[1][257]

(***************************************************************************)
(* C10  Configuration rejection: constructing an encoder or a decoder with *)
(* a block size that is not a power of two (1000), a block size below 64,  *)
(* overlap = 0 or overlap >= block size fails with a configuration error   *)
(* instead of yielding a usable processor.                                 *)
(***************************************************************************)
Rejected(p) ==
    (p.state # "none"
     /\ (\/ p.blockSize \notin {64, 128, 256, 512, 1024, 2048, 4096}
         \/ p.overlap = 0
         \/ p.overlap >= p.blockSize))
    => p.state = "error"

C10_ConfigurationRejection ==
    /\ Rejected(codec.enc)
    /\ Rejected(codec.dec)
    /\ codec.pc = "encoded" => codec.enc.state = "ready"
    /\ codec.pc = "decoded" => codec.dec.state = "ready"

C10_Witness ==
    /\ codec.enc.state = "error" /\ codec.enc.blockSize = 1000 /\ codec.enc.overlap = 512
    /\ codec.dec.state = "error" /\ codec.dec.blockSize = 1024 /\ codec.dec.overlap = 1024

(***************************************************************************)
(* The encode and decode matrices in the steady-state region, where the    *)
(* streams of a processor are sample-aligned.  All channels are sinusoids  *)
(* of one frequency away from DC and Nyquist: a channel is re*s + im*H{s}  *)
(* for a unit sinusoid s, and H{H{s}} = -s.  The coefficients re and im    *)
(* are numbers (p + q*sqrt(2)) / 2^k, so that c = sqrt(2)/2 is exact.      *)
(***************************************************************************)
Surd(p, q, k) == [p |-> p, q |-> q, k |-> k]
SZero == Surd(0, 0, 0)

RECURSIVE SNorm(_)
SNorm(a) ==
    IF a.k > 0 /\ a.p % 2 = 0 /\ a.q % 2 = 0
    THEN SNorm(Surd(a.p \div 2, a.q \div 2, a.k - 1))
    ELSE IF a.p = 0 /\ a.q = 0 THEN SZero ELSE a

SAdd(a, b) ==
    LET k == IF a.k > b.k THEN a.k ELSE b.k
    IN  SNorm(Surd(a.p * Pow2(k - a.k) + b.p * Pow2(k - b.k),
                   a.q * Pow2(k - a.k) + b.q * Pow2(k - b.k), k))
SNeg(a) == Surd(-a.p, -a.q, a.k)
\* c * (p + q sqrt 2) / 2^k = (2q + p sqrt 2) / 2^(k+1)
SMulC(a) == SNorm(Surd(2 * a.q, a.p, a.k + 1))

Tone(re, im) == [re |-> re, im |-> im]
NoTone == Tone(SZero, SZero)
TAdd(x, y) == Tone(SAdd(x.re, y.re), SAdd(x.im, y.im))
TSub(x, y) == Tone(SAdd(x.re, SNeg(y.re)), SAdd(x.im, SNeg(y.im)))
TMulC(x) == Tone(SMulC(x.re), SMulC(x.im))
\* H{re*s + im*H{s}} = re*H{s} - im*s
THilbert(x) == Tone(SNeg(x.im), x.re)

\* LT = LF' + c RB' - c H{LB},  RT = RF' + c LB' + c H{RB}
EncodeMatrix(q) ==
    << TSub(TAdd(q[1], TMulC(q[4])), TMulC(THilbert(q[3]))),
       TAdd(TAdd(q[2], TMulC(q[3])), TMulC(THilbert(q[4]))) >>

\* LF = LT', RF = RT', LB = c H{LT} - c RT', RB = c LT' - c H{RT}
DecodeMatrix(st) ==
    << st[1],
       st[2],
       TSub(TMulC(THilbert(st[1])), TMulC(st[2])),
       TSub(TMulC(st[1]), TMulC(THilbert(st[2]))) >>

Amplitudes == {-1, 0, 1}
Tones == { Tone(Surd(a, 0, 0), Surd(b, 0, 0)) : a, b \in Amplitudes }
RefProcessor == NewProcessor(RefBlockSize, RefOverlap)

InitMatrix ==
    /\ data = Nil
    /\ file = NoFile
    /\ wbuf = <<>>
    /\ wres = NoWrite
    /\ rd = RdIdle
    /\ layout = <<>>
    /\ conv = ConvIdle
    /\ \E lf, rf, lb, rb \in Tones :
          codec = [CodecIdle EXCEPT !.enc = RefProcessor, !.dec = RefProcessor,
                                    !.quad = <<lf, rf, lb, rb>>]

MatrixEncode ==
    /\ codec.pc = "idle"
    /\ codec.enc.state = "ready"
    /\ codec' = [codec EXCEPT !.pc = "encoded", !.stereo = EncodeMatrix(codec.quad)]
    /\ UNCHANGED <<data, file, wbuf, wres, rd, layout, conv>>

MatrixDecode ==
    /\ codec.pc = "encoded"
    /\ codec.dec.state = "ready"
    /\ codec' = [codec EXCEPT !.pc = "decoded", !.decoded = DecodeMatrix(codec.stereo)]
    /\ UNCHANGED <<data, file, wbuf, wres, rd, layout, conv>>

MatrixNext == MatrixEncode \/ MatrixDecode

SpecMatrix == InitMatrix /\ [][MatrixNext]_vars

(***************************************************************************)
(* C11  Isolated rear channel: for input [0, 0, lb, 0] with lb a nonzero   *)
(* sinusoid away from DC and Nyquist, encoding and decoding with the       *)
(* stated matrices yields nonzero LT and RT and a decoded LB channel that  *)
(* is the aligned input lb in the steady-state region.                     *)
(***************************************************************************)
C11_IsolatedRear ==
    (/\ codec.pc = "decoded"
     /\ codec.quad[1] = NoTone /\ codec.quad[2] = NoTone /\ codec.quad[4] = NoTone
     /\ codec.quad[3] # NoTone)
    => /\ codec.stereo[1] # NoTone
       /\ codec.stereo[2] # NoTone
       /\ codec.decoded[3] = codec.quad[3]

(***************************************************************************)
(* C12  Codec shape: for every 4-channel input of NumSamples samples per   *)
(* channel Encoder.Process returns exactly 2 channels of NumSamples        *)
(* samples each; for every 2-channel input Decoder.Process returns exactly *)
(* 4 channels of the same sample count; an input whose channel count does  *)
(* not match the processor arity returns an error.                         *)
(***************************************************************************)
C12_CodecShape ==
    /\ codec.encErr # "none"
          => IF Len(codec.quad) = 4
             THEN /\ codec.encErr = "nil"
                  /\ Len(codec.stereo) = 2
                  /\ \A ch \in 1..2 : Len(codec.stereo[ch]) = Len(codec.quad[1])
             ELSE codec.encErr # "nil" /\ codec.stereo = <<>>
    /\ codec.decErr # "none"
          => IF Len(codec.din) = 2
             THEN /\ codec.decErr = "nil"
                  /\ Len(codec.decoded) = 4
                  /\ \A ch \in 1..4 : Len(codec.decoded[ch]) = Len(codec.din[1])
             ELSE codec.decErr # "nil" /\ codec.decoded = <<>>

C12_Witness ==
    /\ codec.pc = "decoded"
    /\ Len(codec.quad) = 4
    /\ Len(codec.quad[1]) = RefOverlap \div 2 + MaxSignal
    /\ Len(codec.stereo) = 2
    /\ Len(codec.decoded) = 4
    /\ Len(codec.decoded[4]) = Len(codec.quad[1])

\* a front-only round trip through an encoder and a decoder of one configuration
FrontRoundTrip ==
    /\ codec.pc = "decoded"
    /\ codec.din = codec.stereo
    /\ codec.enc.blockSize = codec.dec.blockSize
    /\ codec.enc.overlap = codec.dec.overlap
    /\ Silent(codec.quad[3]) /\ Silent(codec.quad[4])

\* decoded front sample i is input front sample i + shift, for every i in [0, n - shift)
AlignedAt(shift) ==
    \A ch \in 1..2 : \A i \in 0..(Len(codec.quad[ch]) - shift - 1) :
        codec.decoded[ch][i + 1] = codec.quad[ch][i + shift + 1]

DelayedBy(delay) ==
    \A ch \in 1..2 : \A i \in 0..(Len(codec.quad[ch]) - delay - 1) :
        codec.decoded[ch][i + delay + 1] = codec.quad[ch][i + 1]

(***************************************************************************)
(* C14  Reported latency: for the reference configuration the encoder and  *)
(* the decoder each report a latency L of 768 samples, and                 *)
(* decode(encode(x)) for front-only content is aligned to that same L:     *)
(* each output sample is the input sample L positions away.                *)
(***************************************************************************)
C14_AlignedToReportedLatency ==
    (/\ FrontRoundTrip
     /\ IsRef(codec.enc) /\ IsRef(codec.dec)
     /\ Len(codec.quad[1]) > RefLatency)
    => (AlignedAt(RefLatency) \/ DelayedBy(RefLatency))

(***************************************************************************)
(* The package's other copy of the reader, on files other software wrote   *)
(***************************************************************************)
InitPart000 ==
    /\ data = Nil
    /\ \/ /\ layout \in Layouts(MaxChunks)
          /\ file = [exists |-> TRUE, bytes |-> StreamOf(layout)]
       \/ /\ layout = <<>>
          /\ file \in { [exists |-> TRUE, bytes |-> s] : s \in BrokenStreams }
    /\ wbuf = <<>>
    /\ wres = NoWrite
    /\ rd = RdIdle
    /\ codec = CodecIdle
    /\ conv = ConvIdle

\* ReadWAVChannels / ReadWAV of the other copy: os.Open, readWAV up to its loop
ReadFileStartPart000(channels, openFails) ==
    /\ rd.pc # "chunk"
    /\ UNCHANGED <<data, file, wbuf, wres, layout, codec, conv>>
    /\ IF openFails \/ ~file.exists
       THEN rd' = [RdIdle EXCEPT !.pc = "done", !.via = "file", !.exp = channels,
                                 !.impl = "part_000",
                                 !.fault = "open", !.err = "failed to open WAV file"]
       ELSE \E s \in Sources(file.bytes) :
               rd' = HeaderStep([RdIdle EXCEPT !.via = "file", !.exp = channels,
                                               !.impl = "part_000",
                                               !.src = s.src, !.fault = s.fault])

Part000Next ==
    \/ \E c \in ReaderChannels, o \in BOOLEAN : ReadFileStartPart000(c, o)
    \/ ReadChunk

SpecPart000 == InitPart000 /\ [][Part000Next]_vars

\* the stream starts with 'RIFF', four size bytes and 'WAVE'
StartsRiffWave(b) == Len(b) >= 12 /\ Bytes4(b, 0) = RIFF /\ Bytes4(b, 8) = WAVE

\* the encodings the reader is to accept
SupportedEncoding(audioFormat, bitsPerSample) ==
    <<audioFormat, bitsPerSample>> \in { <<1, 16>>, <<1, 24>>, <<3, 32>> }

\* the layout is made of whole chunks and holds exactly one fmt chunk, at i,
\* and after it exactly one data chunk, at j
FmtThenData(i, j) ==
    /\ \A k \in 1..Len(layout) : KindAt(k) \in {"fmt", "fmtbad", "data", "list"}
    /\ KindAt(i) \in {"fmt", "fmtbad"} /\ KindAt(j) = "data" /\ i < j
    /\ \A k \in 1..Len(layout) :
          (KindAt(k) \in {"fmt", "fmtbad"} => k = i) /\ (KindAt(k) = "data" => k = j)

FmtOf(i) == WavFormat(ChunkMenu[layout[i]].bytes, 8)

(***************************************************************************)
(* C15  Unsupported formats on read: the reader accepts exactly the        *)
(* encodings PCM 16-bit, PCM 24-bit and IEEE float 32-bit; for every other *)
(* (audioFormat, bitsPerSample) pair, for a data chunk whose size is not a *)
(* multiple of blockAlign, for blockAlign = 0, and for a stream that does  *)
(* not start with 'RIFF'....'WAVE', it returns an error and no AudioData.  *)
(***************************************************************************)
C15_FormatsOnRead ==
    (rd.pc = "done" /\ rd.fault = "none")
    => /\ ~StartsRiffWave(rd.src) => (rd.err # "nil" /\ rd.data = Nil)
       /\ \A i, j \in 1..Len(layout) :
             (FmtThenData(i, j) /\ rd.exp = FmtOf(i).numChannels)
             => IF /\ SupportedEncoding(FmtOf(i).audioFormat, FmtOf(i).bitsPerSample)
                   /\ FmtOf(i).blockAlign # 0
                   /\ ChunkMenu[layout[j]].size % FmtOf(i).blockAlign = 0
                THEN rd.err = "nil" /\ rd.data # Nil
                ELSE rd.err # "nil" /\ rd.data = Nil

\* the first data chunk of a foreign file, when every chunk before it is whole
FirstData(j) ==
    /\ KindAt(j) \in {"data", "datacut"}
    /\ \A k \in 1..(j - 1) : KindAt(k) \in {"fmt", "fmtbad", "list"}

\* the size field of the data chunk a successful read decoded
DataSizesRead ==
    IF layout = <<>> THEN { ReadU32(rd.src, 40) }
    ELSE { ChunkMenu[layout[j]].size : j \in { k \in 1..Len(layout) : FirstData(k) } }

\* where the samples of the data chunk start, after a successful read
SamplesStart(size) ==
    rd.pos - (size % 2)
       - rd.exp * rd.data.NumSamples * (rd.fmt.bitsPerSample \div 8)

(***************************************************************************)
(* C16  Every AudioData returned by a successful read has exactly the      *)
(* requested number of channels, every channel has exactly NumSamples =    *)
(* dataChunkSize / blockAlign samples, and every sample is finite and      *)
(* within [-1.0, +1.0]: a PCM16 value v is v/32768, so -32768 is exactly   *)
(* -1.0; float32 NaN and +-Inf are 0 and finite values are clamped.        *)
(***************************************************************************)
C16_ReadInvariant ==
    ReadOK
    => /\ rd.data # Nil
       /\ Len(rd.data.Samples) = rd.exp
       /\ \A ch \in 1..rd.exp : Len(rd.data.Samples[ch]) = rd.data.NumSamples
       /\ \A size \in DataSizesRead :
             /\ rd.data.NumSamples * rd.fmt.blockAlign = size
             /\ rd.fmt.bitsPerSample = 16
                   => \A ch \in 1..rd.exp : \A i \in 1..rd.data.NumSamples :
                         LET at == SamplesStart(size) + 2 * ((i - 1) * rd.exp + (ch - 1))
                             u == rd.src[at + 1] + 256 * rd.src[at + 2]
                             v == rd.data.Samples[ch][i]
                         IN  /\ v.den > 0 /\ v.sh = 0
                             /\ v.num * 32768 = (IF u >= 32768 THEN u - 65536 ELSE u) * v.den
       /\ \A ch \in 1..rd.exp : \A i \in 1..rd.data.NumSamples :
             LET v == rd.data.Samples[ch][i]
             IN  /\ v.den > 0
                 /\ v.sh = 0 => (v.num <= v.den /\ -v.num <= v.den)

\* a float32 file holding NaN and -Inf was read as two zero samples
C16_Witness ==
    /\ ReadOK
    /\ rd.fmt.audioFormat = 3
    /\ rd.exp = 1
    /\ rd.data.NumSamples = 2
    /\ rd.data.Samples[1] = <<Zero, Zero>>
    /\ rd.src[rd.pos] = 255

(***************************************************************************)
(* C17  Header/payload consistency on write.  For every AudioData that     *)
(* passes validation, the data-chunk size field of the header equals the   *)
(* number of sample bytes written after it (NumSamples * channels *        *)
(* bytesPerSample), the RIFF size field equals 36 plus that number, and    *)
(* the byteRate field equals SampleRate * blockAlign, none of them         *)
(* wrapped around by the 32-bit (blockAlign: 16-bit) header arithmetic.    *)
(* byteRate = SampleRate * blockAlign is stated by exact division, which   *)
(* is the same over the integers since blockAlign > 0.                     *)
(***************************************************************************)
WroteAll == Wrote /\ wres.err = "nil" /\ wres.fault = "none"
BytesPerSample == IF wres.format = "pcm16" THEN 2 ELSE 4

PayloadConsistent ==
    LET payload == Len(Written) - 44
    IN  /\ payload = data.NumSamples * wres.channels * BytesPerSample
        /\ ReadU32(Written, 40) = payload
        /\ ReadU32(Written, 4) = 36 + payload
        /\ ReadU16(Written, 32) = wres.channels * BytesPerSample

C17_HeaderConsistency ==
    WroteAll
    => /\ PayloadConsistent
       /\ ReadU32(Written, 28) % ReadU16(Written, 32) = 0
       /\ ReadU32(Written, 28) \div ReadU16(Written, 32) = data.SampleRate

\* what the writers do: the size fields are consistent, and byteRate is
\* SampleRate * blockAlign modulo 2^32
C17_Actual ==
    WroteAll
    => /\ PayloadConsistent
       /\ ReadU32(Written, 24) = data.SampleRate
       /\ IF data.SampleRate < 65536 * 4096
          THEN ReadU32(Written, 28) = data.SampleRate * ReadU16(Written, 32)
          ELSE ReadU32(Written, 28) = 0

C17_Wrapped ==
    /\ WroteAll
    /\ data.NumSamples = 2
    /\ data.SampleRate = 65536 * 16384
    /\ ReadU32(Written, 28) = 0

(***************************************************************************)
(* C18  No effect on validation failure.  When a WAV write operation       *)
(* rejects its AudioData (wrong channel count, negative NumSamples, a      *)
(* channel shorter than NumSamples), the destination is left untouched: no *)
(* bytes are written to the stream and the target file is neither created  *)
(* nor truncated.                                                          *)
(***************************************************************************)
\* a write call has just returned with a validation error
RejectsData ==
    /\ wres' # wres
    /\ wres'.err = ValidateWrite(data, wres'.channels)
    /\ wres'.err # "nil"

C18_NoEffectOnRejection == [][RejectsData => (wbuf' = wbuf /\ file' = file)]_vars

\* what the code does: the stream receives nothing, the file is created or
\* truncated to no bytes
C18_Actual ==
    [][RejectsData => /\ wbuf' = wbuf
                      /\ wres'.api = "file" => file' = [exists |-> TRUE, bytes |-> <<>>]]_vars

\* a file holding a complete WAV has been emptied by a rejected write
C18_Truncated ==
    /\ wres.api = "file"
    /\ wres.err = ValidateWrite(data, wres.channels)
    /\ wres.err # "nil"
    /\ ShapeOK(data, 2)
    /\ file = [exists |-> TRUE, bytes |-> <<>>]

(***************************************************************************)
(* C19  Chunk resynchronisation.  After every chunk the reader passes over *)
(* without returning (an unknown chunk, or a fmt chunk of any size >= 16,  *)
(* odd sizes with an extension included), its read position is exactly the *)
(* start of the next chunk header: payload start plus the chunk size       *)
(* rounded up to an even number of bytes.                                  *)
(***************************************************************************)
\* the chunk loop has run one iteration and goes on to the next
PassesOver == rd.pc = "chunk" /\ rd'.pc = "chunk"
SizeAtPos == ReadU32(rd.src, rd.pos + 4)

C19_ChunkResync ==
    [][PassesOver => rd'.pos = rd.pos + 8 + SizeAtPos + (SizeAtPos % 2)]_vars

\* what the reader does: the pad byte is skipped after unknown chunks only
C19_Actual ==
    [][PassesOver =>
         rd'.pos = rd.pos + 8 + SizeAtPos
                   + (IF Bytes4(rd.src, rd.pos) = FmtID THEN 0 ELSE SizeAtPos % 2)]_vars

\* the pad byte of an odd fmt chunk has been taken for the start of an id
C19_Misaligned ==
    /\ rd.pc = "chunk"
    /\ Len(layout) = 2
    /\ KindAt(1) = "fmtodd"
    /\ KindAt(2) = "data"
    /\ rd.pos = 12 + 8 + 17
    /\ Bytes4(rd.src, rd.pos + 1) = DataID

(***************************************************************************)
(* C20  Reader termination.  For every finite byte stream readWAV          *)
(* terminates with either AudioData or an error; every iteration of the    *)
(* chunk loop consumes at least the 8 header bytes or returns; a chunk     *)
(* whose declared size exceeds the remaining bytes yields an error; and a  *)
(* stream that ends exactly at a chunk boundary without any data chunk     *)
(* yields the "no data chunk found" error.                                 *)
(***************************************************************************)
\* the chunk loop runs on until it returns
SpecLoop == Spec /\ WF_vars(ReadChunk)

Returned ==
    rd.pc = "done"
    => \/ rd.err = "nil" /\ rd.data # Nil
       \/ rd.err # "nil" /\ rd.data = Nil

\* the loop is at a chunk header whose size field exceeds what follows it
Oversized ==
    /\ rd.pc = "chunk"
    /\ Len(rd.src) - rd.pos >= 8
    /\ SizeAtPos > Len(rd.src) - (rd.pos + 8)

\* the loop is at the end of a stream that was delivered in full
AtEnd == rd.pc = "chunk" /\ rd.pos = Len(rd.src) /\ rd.fault = "none"

LoopProgress ==
    /\ rd.pc = "chunk" ~> rd.pc = "done"
    /\ []Returned
    /\ [][PassesOver => (rd'.pos >= rd.pos + 8 /\ rd'.pos <= Len(rd.src))]_vars
    /\ [][AtEnd => (rd'.pc = "done" /\ rd'.err = "no data chunk found")]_vars

C20_ReaderTermination ==
    /\ LoopProgress
    /\ [][Oversized => (rd'.pc = "done" /\ rd'.err # "nil" /\ rd'.data = Nil)]_vars

\* what the reader does: a data chunk is read by channels * bytes per sample
\* per frame, so it may end before its declared size when blockAlign is larger
C20_Actual ==
    /\ LoopProgress
    /\ [][(Oversized /\ ~(/\ Bytes4(rd.src, rd.pos) = DataID
                          /\ rd.fmt # Nil
                          /\ rd.fmt.blockAlign > rd.exp * (rd.fmt.bitsPerSample \div 8)))
             => (rd'.pc = "done" /\ rd'.err # "nil" /\ rd'.data = Nil)]_vars

\* a data chunk declaring 8 bytes, 2 of them present, was read as one frame
C20_ShortDataAccepted ==
    /\ ReadOK
    /\ Len(layout) = 2
    /\ KindAt(2) = "datacut"
    /\ rd.fmt.blockAlign = 8
    /\ rd.data.NumSamples = 1

(***************************************************************************)
(* A PCM16 sample read and written back: the file holds the two bytes of   *)
(* one sample, the PCM16 branch of readWAV decodes them, floatToPCM16      *)
(* converts the result for the writer.                                     *)
(***************************************************************************)
Int16 == -32768..32767

InitDrift ==
    /\ data = Nil
    /\ file \in { [exists |-> TRUE, bytes |-> LE16(ToUint16(v))] : v \in Int16 }
    /\ wbuf = <<>>
    /\ wres = NoWrite
    /\ rd = RdIdle
    /\ layout = <<>>
    /\ codec = CodecIdle
    /\ conv = ConvIdle

\* readWAV, case 16: binary.Read of an int16, float64(v) / 32768.0
ReadPCM16Sample ==
    /\ conv.pc = "idle"
    /\ conv' = [conv EXCEPT !.pc = "ready", !.v = DecodeSample(file.bytes, 0, 0, 2)]
    /\ UNCHANGED <<data, file, wbuf, wres, rd, layout, codec>>

DriftNext == ReadPCM16Sample \/ ConvertPCM16

SpecDrift == InitDrift /\ [][DriftNext]_vars

\* the int16 the file holds
Stored == FromUint16(ReadU16(file.bytes, 0))

(***************************************************************************)
(* C22  PCM16 read-then-write drift: for every int16 value v, reading it   *)
(* (v / 32768) and writing it back with floatToPCM16 yields a value w with *)
(* |w - v| <= 1; w = v exactly when |v| <= 16384 or v = -32768, and w is   *)
(* one step closer to zero than v otherwise.                               *)
(***************************************************************************)
C22_ReadWriteDrift ==
    conv.pc = "done"
    => LET v == Stored
           w == conv.out
       IN  /\ conv.v = Rat(v, 32768)
           /\ w - v \in -1..1
           /\ (w = v) <=> ((v >= -16384 /\ v <= 16384) \/ v = -32768)
           /\ (v > 16384) => w = v - 1
           /\ (v < -16384 /\ v # -32768) => w = v + 1

C22_Witness ==
    /\ conv.pc = "done"
    /\ Stored = -16385
    /\ conv.out = -16384

(***************************************************************************)
(* The whole of readWAV on a stream delivered in full: the header, then    *)
(* the chunk loop until it returns.                                        *)
(***************************************************************************)
RECURSIVE RunLoop(_)
RunLoop(r) == IF r.pc = "chunk" THEN RunLoop(ChunkStep(r)) ELSE r

readWAV(src, expectedChannels) ==
    RunLoop(HeaderStep([RdIdle EXCEPT !.via = "file", !.exp = expectedChannels, !.src = src]))

\* the layout is made of whole chunks
WholeChunks ==
    /\ layout # <<>>
    /\ \A k \in 1..Len(layout) : KindAt(k) \in {"fmt", "fmtbad", "data", "list"}

IsFmt(i) == KindAt(i) \in {"fmt", "fmtbad"}

\* chunk j is the first data chunk of the layout
IsFirstData(j) == KindAt(j) = "data" /\ \A k \in 1..(j - 1) : KindAt(k) # "data"

\* chunk i is the last fmt chunk before chunk j
LastFmtBefore(i, j) == i < j /\ IsFmt(i) /\ \A k \in (i + 1)..(j - 1) : ~IsFmt(k)

\* the stream up to the end of chunk j, pad byte included
UpTo(j) == SubSeq(file.bytes, 1, ChunkStart(j + 1))

\* the read of the whole stream gives what the read of the stream cut after
\* chunk j gives
SameAsCutAfter(j) ==
    LET cut == readWAV(UpTo(j), rd.exp)
    IN  rd.err = cut.err /\ rd.data = cut.data

(***************************************************************************)
(* C21  Which chunks decide the result: the reader returns at the first    *)
(* data chunk it meets, decoding it with the most recent fmt chunk seen    *)
(* before it (a later fmt chunk overrides an earlier one); a data chunk    *)
(* met before any fmt chunk is an error; no byte after the first data      *)
(* chunk (and its pad byte) influences the result: the read gives what it  *)
(* gives on the stream that ends there.                                    *)
(***************************************************************************)
C21_FirstDataDecides ==
    (rd.pc = "done" /\ rd.fault = "none" /\ WholeChunks)
    => \A j \in 1..Len(layout) :
          IsFirstData(j)
          => /\ (\A i \in 1..(j - 1) : ~IsFmt(i)) => rd.err = "data chunk before fmt chunk"
             /\ \A i \in 1..(j - 1) : LastFmtBefore(i, j) => rd.fmt = FmtOf(i)
             /\ rd.pos <= ChunkStart(j + 1)
             /\ SameAsCutAfter(j)

\* what the reader does: the fmt chunk in effect and the error are as
\* claimed, and the bytes after the data chunk are not read when blockAlign
\* is at least channels * bytes per sample
C21_Actual ==
    (rd.pc = "done" /\ rd.fault = "none" /\ WholeChunks)
    => \A j \in 1..Len(layout) :
          IsFirstData(j)
          => /\ (\A i \in 1..(j - 1) : ~IsFmt(i)) => rd.err = "data chunk before fmt chunk"
             /\ \A i \in 1..(j - 1) : LastFmtBefore(i, j) => rd.fmt = FmtOf(i)
             /\ (rd.fmt # Nil /\ rd.fmt.blockAlign < rd.exp * (rd.fmt.bitsPerSample \div 8))
                \/ (rd.pos <= ChunkStart(j + 1) /\ SameAsCutAfter(j))

\* a data chunk of 4 bytes was read as 4 frames of 2 bytes, the last two
\* taken from the header of the chunk after it
C21_ReadPastData ==
    /\ ReadOK
    /\ Len(layout) = 3
    /\ IsFmt(1) /\ IsFirstData(2)
    /\ rd.fmt = FmtOf(1)
    /\ rd.fmt.blockAlign = 1
    /\ rd.data.NumSamples = 4
    /\ rd.pos = ChunkStart(3) + 4
    /\ readWAV(UpTo(2), rd.exp).err = "read PCM16 sample"

====
